---------------------------- MODULE Spec2Model ----------------------------
(***************************************************************************)
(* Model of imgbeddings (src/imgbeddings/imgbeddings.py): the batching     *)
(* entry point to_embeddings and the attention-weighted reduction          *)
(* create_embeddings.                                                      *)
(*                                                                         *)
(* Tensors are nested sequences, indexed from 1 (Python index i is i+1).   *)
(* A float is an exact rational n/d with d > 0, or one of the IEEE         *)
(* specials, written with d = 0: NaN = 0/0, +Inf = 1/0, -Inf = -1/0.       *)
(* Rounding is not modelled: where the program is "equal within floating   *)
(* tolerance", the model is exactly equal.                                 *)
(***************************************************************************)
EXTENDS Integers, Sequences, FiniteSets, TLC

(***************************************************************************)
(* Bounds of the model.                                                    *)
(***************************************************************************)
\* number of transformer layers of the encoder (12 in clip-vit-base)
Depth == 2
\* largest batch handed directly to create_embeddings
MaxB == 2
\* largest input list of to_embeddings
MaxN == 3
\* largest batch_size of to_embeddings
MaxBatchSize == 3

(***************************************************************************)
(* Float arithmetic (torch float tensors' element arithmetic).             *)
(***************************************************************************)
Sign(n) == IF n > 0 THEN 1 ELSE IF n < 0 THEN -1 ELSE 0

Abs(n) == IF n < 0 THEN -n ELSE n

Max(a, b) == IF a >= b THEN a ELSE b

Min(a, b) == IF a <= b THEN a ELSE b

RECURSIVE GCD(_, _)
GCD(a, b) == IF b = 0 THEN a ELSE GCD(b, a % b)

\* the float n/d in lowest terms; x/0 is +-Inf, 0/0 is NaN
Float(n, d) ==
    IF d = 0 THEN [n |-> Sign(n), d |-> 0]
    ELSE LET g == GCD(Abs(n), Abs(d))
         IN  [n |-> (Sign(d) * n) \div g, d |-> Abs(d) \div g]

NaN == [n |-> 0, d |-> 0]

Zero == [n |-> 0, d |-> 1]

One == [n |-> 1, d |-> 1]

IsNaN(x) == x.d = 0 /\ x.n = 0

IsFinite(x) == x.d > 0

FAdd(a, b) ==
    IF a.d = 0 /\ b.d = 0
    THEN (IF a.n = b.n THEN a ELSE NaN)
    ELSE Float(a.n * b.d + b.n * a.d, a.d * b.d)

FMul(a, b) == Float(a.n * b.n, a.d * b.d)

\* a safe division that yields 0 for a zero denominator
FDivGuarded(a, b) ==
    IF b = Zero THEN Zero
    ELSE IF a.d = 0
    THEN (IF b.d = 0 THEN NaN
          ELSE [n |-> a.n * (IF b.n < 0 THEN -1 ELSE 1), d |-> 0])
    ELSE Float(a.n * b.d, a.d * b.n)

\* IEEE division: x/0 is +-Inf, 0/0 is NaN
FDiv(a, b) ==
    IF a.d = 0
    THEN (IF b.d = 0 THEN NaN
          ELSE [n |-> a.n * (IF b.n < 0 THEN -1 ELSE 1), d |-> 0])
    ELSE Float(a.n * b.d, a.d * b.n)

RECURSIVE FSum(_)
FSum(s) == IF s = <<>> THEN Zero ELSE FAdd(Head(s), FSum(Tail(s)))


(***************************************************************************)
(* The encoder (self.model, a CLIPVisionModel) and the preprocessor are    *)
(* external.  An image is described by what the encoder computes from it:  *)
(* for each entry of the hidden-state tuple a (T, D) matrix, for each      *)
(* layer and head a (T, T) attention matrix.  The matrices come from a     *)
(* small set of kinds; all images of one call share a shape (the           *)
(* processor resizes every image to the same size).                        *)
(***************************************************************************)
\* (T, D, H): tokens, feature dimension, attention heads
Shapes == {[T |-> 3, D |-> 4, H |-> 1], [T |-> 2, D |-> 1, H |-> 2]}

HiddenKinds == {"scenario", "ramp"}

AttnKinds(T) == IF T = 2 THEN {"class", "spread"} ELSE {"class", "spread", "last"}

\* one entry of the hidden-state tuple for one image: [t][d]
\* "scenario" is [[1,1,1,1],[2,0,0,0],[0,2,0,0]] for T = 3, D = 4
HiddenLayer(kind, sh) ==
    [t \in 1..sh.T |-> [d \in 1..sh.D |->
        IF kind = "scenario"
        THEN (IF t = 1 THEN One ELSE IF d = t - 1 THEN Float(2, 1) ELSE Zero)
        ELSE Float(t * d - 2, 1)]]

\* tenths of attention of each query (row) to each key (column); each row
\* is a softmax output and sums to 1.  For T = 3 the mean over the queries
\* is [0.5, 0.3, 0.2].
SpreadRows(T) ==
    IF T = 2 THEN << <<7, 3>>, <<5, 5>> >>
    ELSE << <<6, 3, 1>>, <<5, 3, 2>>, <<4, 3, 3>> >>

\* one head's attention matrix for one image: [query][key]
AttnHead(kind, sh) ==
    [q \in 1..sh.T |-> [key \in 1..sh.T |->
        CASE kind = "class" -> (IF key = 1 THEN One ELSE Zero)
          [] kind = "last" -> (IF key = sh.T THEN One ELSE Zero)
          [] OTHER -> Float(SpreadRows(sh.T)[q][key], 10)]]

\* every image of a shape: one kind per hidden-state entry (the embedding
\* output and the Depth layers) and per layer and head
Images(sh) ==
    [shape : {sh},
     hid : [1..(Depth + 1) -> HiddenKinds],
     att : [1..Depth -> [1..sh.H -> AttnKinds(sh.T)]]]

\* the images whose layers (and heads) are all of one kind
UniformImages(sh) ==
    {[shape |-> sh,
      hid |-> [l \in 1..(Depth + 1) |-> hk],
      att |-> [l \in 1..Depth |-> [h \in 1..sh.H |-> ak]]] :
        hk \in HiddenKinds, ak \in AttnKinds(sh.T)}

\* all sequences over S of length lo..hi
SeqsOf(S, lo, hi) == UNION {[1..n -> S] : n \in lo..hi}

square_pad(x) == [padded |-> x]

\* process_inputs: pad every image, hand the list to the processor
process_inputs(inputs) ==
    [pixel_values |-> [i \in 1..Len(inputs) |-> square_pad(inputs[i])]]

\* self.model(**inputs, output_attentions=True, output_hidden_states=True):
\* hidden_states has Depth + 1 entries of shape (B, T, D), attentions has
\* Depth entries of shape (B, H, T, T); batch item b is computed from
\* image b alone
model(image_inputs) ==
    LET px == image_inputs.pixel_values
    IN [hidden_states |->
            [l \in 1..(Depth + 1) |-> [b \in 1..Len(px) |->
                HiddenLayer(px[b].padded.hid[l], px[b].padded.shape)]],
        attentions |->
            [l \in 1..Depth |-> [b \in 1..Len(px) |->
                [h \in 1..px[b].padded.shape.H |->
                    AttnHead(px[b].padded.att[l][h], px[b].padded.shape)]]]]

(***************************************************************************)
(* Tensor operations used by create_embeddings.  An operation that can     *)
(* raise returns [error, value].                                           *)
(***************************************************************************)
Ok(v) == [error |-> "none", value |-> v]

Raise(e) == [error |-> e, value |-> <<>>]

\* tup[-num_layers:], which never raises
LayerSlice(tup, num_layers) ==
    LET first == IF num_layers <= 0 THEN 1 - Min(num_layers, 0)
                 ELSE Max(Len(tup) - num_layers + 1, 1)
    IN  Ok(SubSeq(tup, first, Len(tup)))

\* [tup[i] for i in range(-num_layers, 0)]: Python index i < 0 is entry
\* Len(tup) + i, and raises IndexError below the first entry
LayerWindow(tup, num_layers) ==
    LET idx == [j \in 1..Max(num_layers, 0) |-> j - num_layers - 1]
        pos(i) == Len(tup) + i + 1
    IN  IF \E j \in DOMAIN idx : pos(idx[j]) < 1
        THEN Raise("IndexError")
        ELSE Ok([j \in DOMAIN idx |-> tup[pos(idx[j])]])

\* torch.stack: an empty list raises; stacked tensors get a leading axis
torch_stack(tensors) ==
    IF tensors = <<>> THEN Raise("RuntimeError") ELSE Ok(tensors)

\* the mean over axis 0 instead of the sum
torch_mean0(x) ==
    [b \in DOMAIN x[1] |-> [t \in DOMAIN x[1][b] |-> [d \in DOMAIN x[1][b][t] |->
        FDiv(FSum([l \in DOMAIN x |-> x[l][b][t][d]]), Float(Len(x), 1))]]]

\* torch.sum(x, 0) of x[l][b][t][d]
torch_sum0(x) ==
    [b \in DOMAIN x[1] |-> [t \in DOMAIN x[1][b] |-> [d \in DOMAIN x[1][b][t] |->
        FSum([l \in DOMAIN x |-> x[l][b][t][d]])]]]

\* torch.transpose(x, 1, 0) of x[l][b]...
torch_transpose10(x) == [b \in DOMAIN x[1] |-> [l \in DOMAIN x |-> x[l][b]]]

\* torch.mean(x, (1, 2, 3)) of x[b][l][h][q][key]: one value per key
torch_mean123(x) ==
    [b \in DOMAIN x |-> [key \in DOMAIN x[b][1][1][1] |->
        FDiv(FSum([l \in DOMAIN x[b] |->
                  FSum([h \in DOMAIN x[b][l] |->
                       FSum([q \in DOMAIN x[b][l][h] |-> x[b][l][h][q][key]])])]),
             Float(Len(x[b]) * Len(x[b][1]) * Len(x[b][1][1]), 1))]]

\* the class token keeps its weight
keep_column0(x) == x

\* x[:, 0] = 0.0
zero_column0(x) ==
    [b \in DOMAIN x |-> [t \in DOMAIN x[b] |-> IF t = 1 THEN Zero ELSE x[b][t]]]

\* torch.sum(x) over every axis, repeated for each row
torch_sum_all(x) ==
    [b \in DOMAIN x |-> FSum([c \in DOMAIN x |-> FSum(x[c])])]

\* torch.sum(x, 1) of x[b][t]
torch_sum1(x) == [b \in DOMAIN x |-> FSum(x[b])]

\* x / torch.unsqueeze(s, 1): row b of x divided by s[b]
torch_div_rows(x, s) ==
    [b \in DOMAIN x |-> [t \in DOMAIN x[b] |-> FDiv(x[b][t], s[b])]]

\* whether two axis lengths broadcast against each other
Broadcastable(m, n) == m = n \/ m = 1 \/ n = 1

\* the index into an axis of length n for index i of the broadcast result
BIdx(i, n) == IF n = 1 THEN 1 ELSE i

\* h * w.unsqueeze(2) for h[b][t][d] and w[b][t], with torch's
\* broadcasting: a size-1 axis is repeated, other unequal sizes raise
torch_mul_unsqueeze2(h, w) ==
    LET hB == Len(h)
        hT == Len(h[1])
        wB == Len(w)
        wT == Len(w[1])
    IN  IF ~(Broadcastable(hB, wB) /\ Broadcastable(hT, wT))
        THEN Raise("RuntimeError")
        ELSE Ok([b \in 1..Max(hB, wB) |-> [t \in 1..Max(hT, wT) |->
                    [d \in DOMAIN h[1][1] |->
                        FMul(h[BIdx(b, hB)][BIdx(t, hT)][d],
                             w[BIdx(b, wB)][BIdx(t, wT)])]]])

\* x.sum(1) of x[b][t][d]
torch_sum1of3(x) ==
    [b \in DOMAIN x |-> [d \in DOMAIN x[b][1] |->
        FSum([t \in DOMAIN x[b] |-> x[b][t][d]])]]

(***************************************************************************)
(* create_embeddings, lines 82-100: the reduction of the encoder's         *)
(* outputs.  Returns [error, value, weights]: value is the (B, D) result,  *)
(* weights the local attentions_reweighted of lines 95-97.                 *)
(***************************************************************************)
Raised(e) == [error |-> e, value |-> <<>>, weights |-> <<>>]

reduce_outputs(outputs, num_layers) ==
    LET hs_list == LayerWindow(outputs.hidden_states, num_layers)
    IN  IF hs_list.error # "none" THEN Raised(hs_list.error)
        ELSE
    LET hs_stack == torch_stack(hs_list.value)
    IN  IF hs_stack.error # "none" THEN Raised(hs_stack.error)
        ELSE
    LET hidden_states == torch_sum0(hs_stack.value)
        at_list == LayerWindow(outputs.attentions, num_layers)
    IN  IF at_list.error # "none" THEN Raised(at_list.error)
        ELSE
    LET at_stack == torch_stack(at_list.value)
    IN  IF at_stack.error # "none" THEN Raised(at_stack.error)
        ELSE
    LET attentions == torch_transpose10(at_stack.value)
        attentions_reduced == torch_mean123(attentions)
        zeroed == zero_column0(attentions_reduced)
        reweighted == torch_div_rows(zeroed, torch_sum1(zeroed))
        embeddings == torch_mul_unsqueeze2(hidden_states, reweighted)
    IN  IF embeddings.error # "none" THEN Raised(embeddings.error)
        ELSE [error |-> "none",
              value |-> torch_sum1of3(embeddings.value),
              weights |-> reweighted]

\* create_embeddings(inputs, num_layers): run the encoder, reduce its outputs
create_embeddings(image_inputs, n_layers) ==
    reduce_outputs(model(image_inputs), n_layers)

(***************************************************************************)
(* State.  to_embeddings: its arguments, its position pc, the loop index   *)
(* ndx of the generator batch, the accumulator embeddings, the value it    *)
(* returns (result) or the exception it raises (error).  calls records     *)
(* the chunks handed to process_inputs and create_embeddings, in call      *)
(* order.  image_inputs, outputs and attentions_reweighted are the         *)
(* argument and locals of a direct call of create_embeddings.              *)
(***************************************************************************)
VARIABLES inputs, num_layers, batch_size, return_format, pc, ndx,
          embeddings, calls, result, error, image_inputs, outputs,
          attentions_reweighted

vars == <<inputs, num_layers, batch_size, return_format, pc, ndx,
          embeddings, calls, result, error, image_inputs, outputs,
          attentions_reweighted>>

None == <<>>

\* inputs after "if not isinstance(inputs, list): inputs = [inputs]"
AsList(x) == IF x.kind = "list" THEN x.items ELSE <<x.image>>

\* iterable[ndx : min(ndx + n + 1, length)]: one image too many
batch_long(iterable, n, i) ==
    SubSeq(iterable, i + 1, Min(i + n + 1, Len(iterable)))

\* the slice the generator batch yields at index ndx:
\* iterable[ndx : min(ndx + n, length)]
batch(iterable, n, i) == SubSeq(iterable, i + 1, Min(i + n, Len(iterable)))

\* tensor.numpy(); a numpy array has no such method
numpy(x) ==
    IF x.type = "tensor" THEN Ok([type |-> "ndarray", rows |-> x.rows])
    ELSE Raise("AttributeError")

\* np.vstack: the rows of a (B, D) tensor, or the arrays of a list, stacked
\* into one array; nothing to stack raises
np_vstack(x) ==
    IF x.rows = <<>> THEN Raise("ValueError")
    ELSE Ok([type |-> "ndarray", rows |-> x.rows])

\* torch.as_tensor
as_tensor(x) == [type |-> "tensor", rows |-> x.rows]

\* the images to_embeddings is called with: one per attention kind
CallImages(sh) == {img \in UniformImages(sh) : img.hid[1] = "scenario"}

Init ==
    /\ \E sh \in Shapes :
          inputs \in {[kind |-> "image", image |-> img] : img \in CallImages(sh)}
                     \cup {[kind |-> "list", items |-> s] :
                             s \in SeqsOf(CallImages(sh), 1, MaxN)}
    /\ num_layers \in 0..(Depth + 1)
    /\ batch_size \in 1..MaxBatchSize
    /\ return_format \in {"np", "pt"}
    /\ pc = "call"
    /\ ndx = 0
    /\ embeddings = None
    /\ calls = <<>>
    /\ result = None
    /\ error = "none"
    /\ image_inputs = None
    /\ outputs = None
    /\ attentions_reweighted = None

\* lines 36-46: a list shorter than batch_size is embedded in one pass
SinglePass ==
    /\ pc = "call"
    /\ Len(AsList(inputs)) < batch_size
    /\ LET r == create_embeddings(process_inputs(AsList(inputs)), num_layers)
       IN  /\ inputs' = [kind |-> "list", items |-> AsList(inputs)]
           /\ calls' = <<AsList(inputs)>>
           /\ IF r.error # "none"
              THEN /\ pc' = "raised"
                   /\ error' = r.error
                   /\ UNCHANGED <<embeddings, result>>
              ELSE /\ pc' = "done"
                   /\ embeddings' = [type |-> "tensor", rows |-> r.value]
                   /\ result' = IF return_format = "np"
                                THEN numpy(embeddings').value
                                ELSE embeddings'
                   /\ UNCHANGED error
    /\ UNCHANGED <<num_layers, batch_size, return_format, ndx, image_inputs,
                   outputs, attentions_reweighted>>

\* lines 36-40, 47-57: otherwise start the loop with an empty accumulator
BatchedStart ==
    /\ pc = "call"
    /\ ~(Len(AsList(inputs)) < batch_size)
    /\ inputs' = [kind |-> "list", items |-> AsList(inputs)]
    /\ embeddings' = [type |-> "list", rows |-> <<>>]
    /\ ndx' = 0
    /\ pc' = "loop"
    /\ UNCHANGED <<num_layers, batch_size, return_format, calls, result, error,
                   image_inputs, outputs, attentions_reweighted>>

\* lines 58-61: one iteration; the chunk's embeddings are assigned to the
\* accumulator (the progress bar is display only)
LoopBody ==
    /\ pc = "loop"
    /\ ndx < Len(inputs.items)
    /\ LET input_batch == batch(inputs.items, batch_size, ndx)
           r == create_embeddings(process_inputs(input_batch), num_layers)
       IN  /\ calls' = Append(calls, input_batch)
           /\ IF r.error # "none"
              THEN /\ pc' = "raised"
                   /\ error' = r.error
                   /\ UNCHANGED <<embeddings, ndx>>
              ELSE /\ embeddings' = [type |-> "tensor", rows |-> r.value]
                   /\ ndx' = ndx + batch_size
                   /\ UNCHANGED <<pc, error>>
    /\ UNCHANGED <<inputs, num_layers, batch_size, return_format, result,
                   image_inputs, outputs, attentions_reweighted>>

\* lines 63-68: after the loop, stack the accumulator and convert it
LoopExit ==
    /\ pc = "loop"
    /\ ~(ndx < Len(inputs.items))
    /\ LET stacked == np_vstack(embeddings)
           converted == IF stacked.error # "none" THEN stacked
                        ELSE IF return_format = "np" THEN numpy(stacked.value)
                        ELSE Ok(as_tensor(stacked.value))
       IN  IF converted.error # "none"
           THEN /\ pc' = "raised"
                /\ error' = converted.error
                /\ embeddings' = IF stacked.error # "none" THEN embeddings
                                 ELSE stacked.value
                /\ UNCHANGED result
           ELSE /\ pc' = "done"
                /\ embeddings' = stacked.value
                /\ result' = converted.value
                /\ UNCHANGED error
    /\ UNCHANGED <<inputs, num_layers, batch_size, return_format, ndx, calls,
                   image_inputs, outputs, attentions_reweighted>>

Next == SinglePass \/ BatchedStart \/ LoopBody \/ LoopExit

Spec == Init /\ [][Next]_vars

(***************************************************************************)
(* create_embeddings called directly, on every image of a shape alone      *)
(* and on batches of up to MaxB images.                                    *)
(***************************************************************************)
InitReduce ==
    /\ \E sh \in Shapes :
          image_inputs \in
              {process_inputs(s) : s \in SeqsOf(Images(sh), 1, 1)
                                        \cup SeqsOf(UniformImages(sh), 2, MaxB)}
    /\ num_layers \in (-1)..(Depth + 2)
    /\ pc = "create"
    /\ inputs = None
    /\ batch_size = 0
    /\ return_format = "pt"
    /\ ndx = 0
    /\ embeddings = None
    /\ calls = <<>>
    /\ result = None
    /\ error = "none"
    /\ outputs = None
    /\ attentions_reweighted = None

\* lines 76-100
CreateEmbeddings ==
    /\ pc = "create"
    /\ outputs' = model(image_inputs)
    /\ LET r == reduce_outputs(outputs', num_layers)
       IN  /\ error' = r.error
           /\ attentions_reweighted' = r.weights
           /\ result' = IF r.error = "none"
                        THEN [type |-> "tensor", rows |-> r.value]
                        ELSE None
           /\ pc' = IF r.error = "none" THEN "created" ELSE "raised"
    /\ UNCHANGED <<inputs, num_layers, batch_size, return_format, ndx,
                   embeddings, calls, image_inputs>>

NextReduce == CreateEmbeddings

SpecReduce == InitReduce /\ [][NextReduce]_vars

(***************************************************************************)
(* The reduction (lines 82-100) on encoder outputs whose hidden states     *)
(* and attentions come from two different batches, so that the two         *)
(* windows may disagree on batch size and token count.  The attentions     *)
(* are non-degenerate (some attention on the patch tokens).                *)
(***************************************************************************)
InitUnaligned ==
    /\ \E sh1 \in Shapes, sh2 \in Shapes :
       \E s1 \in SeqsOf(UniformImages(sh1), 1, MaxB),
          s2 \in SeqsOf({img \in UniformImages(sh2) : img.att[1][1] # "class"},
                        1, MaxB) :
          outputs = [hidden_states |-> model(process_inputs(s1)).hidden_states,
                     attentions |-> model(process_inputs(s2)).attentions]
    /\ num_layers \in 1..Depth
    /\ pc = "outputs"
    /\ inputs = None
    /\ batch_size = 0
    /\ return_format = "pt"
    /\ ndx = 0
    /\ embeddings = None
    /\ calls = <<>>
    /\ result = None
    /\ error = "none"
    /\ image_inputs = None
    /\ attentions_reweighted = None

\* lines 82-100
ReduceOutputs ==
    /\ pc = "outputs"
    /\ LET r == reduce_outputs(outputs, num_layers)
       IN  /\ error' = r.error
           /\ attentions_reweighted' = r.weights
           /\ result' = IF r.error = "none"
                        THEN [type |-> "tensor", rows |-> r.value]
                        ELSE None
           /\ pc' = IF r.error = "none" THEN "created" ELSE "raised"
    /\ UNCHANGED <<inputs, num_layers, batch_size, return_format, ndx,
                   embeddings, calls, image_inputs, outputs>>

NextUnaligned == ReduceOutputs

SpecUnaligned == InitUnaligned /\ [][NextUnaligned]_vars

(***************************************************************************)
(* What the claims speak of, written out element by element.               *)
(***************************************************************************)
\* what create_embeddings returns for a list of images
EmbedBatch(images, k) == create_embeddings(process_inputs(images), k)

\* row is row b of what create_embeddings returns for the list images
\* (the returned value is bound before it is indexed)
IsRowOf(row, images, b, k) ==
    \E r \in {EmbedBatch(images, k)} : r.error = "none" /\ row = r.value[b]

\* row is the embedding of img: create_embeddings on the image alone
IsEmbeddingOf(row, img, k) == IsRowOf(row, <<img>>, 1, k)

\* to_embeddings ran the loop (N >= batch_size)
Batched == pc # "call" /\ inputs.kind = "list" /\ Len(inputs.items) >= batch_size

\* the loop ran to its end: nothing raised inside it
LoopOver ==
    /\ Batched
    /\ \/ pc = "done"
       \/ pc = "raised" /\ error = "AttributeError"
       \/ pc = "loop" /\ ndx >= Len(inputs.items)

RECURSIVE Flatten(_)
Flatten(ss) == IF ss = <<>> THEN <<>> ELSE Head(ss) \o Flatten(Tail(ss))

\* sizes of the encoder outputs in the state
HidB == Len(outputs.hidden_states[1])

HidT == Len(outputs.hidden_states[1][1])

HidD == Len(outputs.hidden_states[1][1][1])

AttB == Len(outputs.attentions[1])

AttH == Len(outputs.attentions[1][1])

AttT == Len(outputs.attentions[1][1][1][1])

\* entry j of the last k entries of a tuple
LastK(tup, k, j) == tup[Len(tup) - k + j]

\* S[b,t,d]: the sum of the last num_layers hidden states
SumHidden(b, t, d) ==
    FSum([j \in 1..num_layers |->
            LastK(outputs.hidden_states, num_layers, j)[b][t][d]])

\* the attention token t of image b receives as a key, averaged over the
\* last num_layers layers, the heads and the query tokens
Mass(b, t) ==
    FDiv(FSum([j \in 1..num_layers |-> FSum([h \in 1..AttH |-> FSum([q \in 1..AttT |->
                 LastK(outputs.attentions, num_layers, j)[b][h][q][t]])])]),
         Float(num_layers * AttH * AttT, 1))

\* the attention mass of the patch tokens of image b (positions 1..T-1)
PatchMass(b) == FSum([i \in 1..(AttT - 1) |-> Mass(b, i + 1)])

\* w[b,t]: the normalized importance, 0 for the class token
Importance(b, t) == IF t = 1 THEN Zero ELSE FDiv(Mass(b, t), PatchMass(b))

\* sum over the tokens t of S[b,t,d] * w[b,t]
WeightedSum(b, d) ==
    FSum([t \in 1..HidT |-> FMul(SumHidden(b, t, d), Importance(b, t))])

\* the images of the batch create_embeddings was called with
BatchImages == [b \in 1..Len(image_inputs.pixel_values) |->
                    image_inputs.pixel_values[b].padded]

Returned == pc \in {"created", "raised"}

ValidK == num_layers \in 1..Depth

\* the spec's scenario: hidden states [[1,1,1,1],[2,0,0,0],[0,2,0,0]] and
\* per-key attention [0.5, 0.3, 0.2] in the last layer; expected
\* embedding [1.2, 0.8, 0, 0]
C3_IsScenario(img) ==
    /\ img.shape = [T |-> 3, D |-> 4, H |-> 1]
    /\ img.hid[Depth + 1] = "scenario"
    /\ img.att[Depth][1] = "spread"

C3_ScenarioRow == <<Float(6, 5), Float(4, 5), Zero, Zero>>

\* the batch with item j replaced by img
C5_Replace(batch_images, j, img) == [batch_images EXCEPT ![j] = img]

(***************************************************************************)
(* C1: to_embeddings returns exactly N rows, row i the embedding of input  *)
(* image i, for every N >= 1 and batch_size >= 1.                          *)
(***************************************************************************)
C1_RowPerImage ==
    pc = "done" =>
        /\ Len(result.rows) = Len(inputs.items)
        /\ \A i \in 1..Len(inputs.items) :
              IsEmbeddingOf(result.rows[i], inputs.items[i], num_layers)

(***************************************************************************)
(* C2: chunking invariance: the rows to_embeddings returns are the rows    *)
(* one single pass over the whole list returns, whatever batch_size is.    *)
(***************************************************************************)
C2_ChunkingInvariance ==
    pc = "done" =>
        \E r \in {EmbedBatch(inputs.items, num_layers)} : result.rows = r.value

(***************************************************************************)
(* C3: for 1 <= k <= L create_embeddings returns, for each image b and     *)
(* feature d, the sum over tokens of S[b,t,d] * w[b,t], S the SUM of the   *)
(* hidden states of the last k layers and w the normalized importance of   *)
(* the attentions of the last k layers; with k = 1 an image whose last     *)
(* layer is the spec's scenario yields [1.2, 0.8, 0, 0] whatever the       *)
(* earlier layers hold.                                                    *)
(***************************************************************************)
C3_WeightedSumOfLastK ==
    (Returned /\ ValidK) =>
        /\ error = "none"
        /\ Len(result.rows) = HidB
        /\ \A b \in 1..HidB :
              /\ Len(result.rows[b]) = HidD
              /\ \A d \in 1..HidD : result.rows[b][d] = WeightedSum(b, d)
              /\ (num_layers = 1 /\ C3_IsScenario(BatchImages[b]))
                    => result.rows[b] = C3_ScenarioRow

C3_Witness ==
    /\ pc = "created"
    /\ num_layers = 1
    /\ \E b \in 1..HidB :
          /\ C3_IsScenario(BatchImages[b])
          /\ BatchImages[b].hid[Depth] = "ramp"
          /\ BatchImages[b].att[Depth - 1][1] = "last"
          /\ result.rows[b] = C3_ScenarioRow

(***************************************************************************)
(* C4: for every image whose patch tokens' attention mass is not zero,     *)
(* the importance vector has weight 0 at the class token and sums to 1.    *)
(***************************************************************************)
C4_ImportanceNormalized ==
    pc = "created" =>
        \A b \in 1..AttB :
            PatchMass(b) # Zero =>
                /\ Len(attentions_reweighted[b]) = AttT
                /\ attentions_reweighted[b][1] = Zero
                /\ FSum(attentions_reweighted[b]) = One

C4_Witness ==
    /\ pc = "created"
    /\ \E b \in 1..AttB :
          /\ PatchMass(b) # Zero
          /\ Mass(b, 1) # Zero
          /\ attentions_reweighted[b][1] = Zero
          /\ \E t \in 2..AttT : attentions_reweighted[b][t] \notin {Zero, One}

(***************************************************************************)
(* C5: the result is (B, D) and row i is determined by image i alone: it   *)
(* is the row the image yields alone in a batch, and stays the same when   *)
(* any other batch item is replaced (non-degenerate attention for i).      *)
(***************************************************************************)
C5_RowDependsOnOwnImage ==
    pc = "created" =>
        /\ Len(result.rows) = Len(BatchImages)
        /\ \A b \in 1..Len(BatchImages) :
              /\ Len(result.rows[b]) = BatchImages[b].shape.D
              /\ PatchMass(b) # Zero =>
                    /\ IsEmbeddingOf(result.rows[b], BatchImages[b], num_layers)
                    /\ \A j \in 1..Len(BatchImages) \ {b} :
                       \A img \in UniformImages(BatchImages[b].shape) :
                          IsRowOf(result.rows[b],
                                  C5_Replace(BatchImages, j, img), b, num_layers)

C5_Witness ==
    /\ pc = "created"
    /\ \E b \in 1..Len(BatchImages), j \in 1..Len(BatchImages) :
          /\ j # b
          /\ PatchMass(b) # Zero
          /\ PatchMass(j) # Zero
          /\ result.rows[j] # result.rows[b]
          /\ \A d \in 1..HidD : IsFinite(result.rows[b][d])

(***************************************************************************)
(* C6: an image whose patch tokens all have importance zero does not make  *)
(* create_embeddings raise; its embedding is NaN in each of the D          *)
(* components.                                                             *)
(***************************************************************************)
C6_DegenerateIsNaN ==
    (Returned /\ ValidK) =>
        \A b \in 1..AttB :
            PatchMass(b) = Zero =>
                /\ error = "none"
                /\ Len(result.rows[b]) = HidD
                /\ \A d \in 1..HidD : IsNaN(result.rows[b][d])

C6_Witness ==
    /\ pc = "created"
    /\ \E b \in 1..AttB :
          /\ PatchMass(b) = Zero
          /\ \A d \in 1..HidD : IsNaN(result.rows[b][d])

C8_RejectsOutOfBounds ==
    (Returned /\ ~ValidK) =>
        /\ pc = "raised"
        /\ error \in {"IndexError", "RuntimeError"}
        /\ result = None

C8_Witness ==
    /\ pc = "raised"
    /\ num_layers = Depth + 1
    /\ error = "IndexError"
    /\ result = None

(***************************************************************************)
(* C9: in the batched branch the chunks handed to process_inputs and       *)
(* create_embeddings are contiguous slices of the input list in input      *)
(* order, each of 1..batch_size images and all but the last of exactly     *)
(* batch_size; once the loop is over they concatenate to the input list    *)
(* and there were ceil(N / batch_size) of them.                            *)
(***************************************************************************)
C9_ChunksPartitionInput ==
    Batched =>
        /\ \A j \in 1..Len(calls) :
              /\ Len(calls[j]) \in 1..batch_size
              /\ j < Len(calls) => Len(calls[j]) = batch_size
              /\ calls[j] = SubSeq(inputs.items, (j - 1) * batch_size + 1,
                                   (j - 1) * batch_size + Len(calls[j]))
        /\ LoopOver =>
              /\ Flatten(calls) = inputs.items
              /\ Len(calls) =
                    (Len(inputs.items) + batch_size - 1) \div batch_size

C9_Witness ==
    /\ pc = "done"
    /\ Batched
    /\ Len(calls) >= 2
    /\ Len(calls[Len(calls)]) < batch_size
    /\ Flatten(calls) = inputs.items

(***************************************************************************)
(* C10: for 1 <= num_layers <= L to_embeddings never raises, and returns   *)
(* a numpy array when return_format is "np" and a tensor otherwise, on     *)
(* both branches.                                                          *)
(***************************************************************************)
C10_ReturnsRequestedFormat ==
    ValidK =>
        /\ pc # "raised"
        /\ pc = "done" =>
              result.type = (IF return_format = "np" THEN "ndarray" ELSE "tensor")

=============================================================================
